---- MODULE Spec2Model ----
(***************************************************************************)
(* A model of src/src/weather.py: the ExpiringCache class, the memoized    *)
(* grid resolver get_gridpoint_location, the report builder get_weather    *)
(* with fetch_current and convert_unit, and the /weather request handler.  *)
(*                                                                         *)
(* Conventions.  Python's None is the empty sequence and a present value v *)
(* is <<v>>.  An OrderedDict is a sequence of [key, item] records in       *)
(* iteration order: index 1 is the first item, the one                     *)
(* move_to_end(key, last=False) moves a key to, and index Len is the last  *)
(* item, the one popitem(last=True) removes.  Time is a natural number of  *)
(* clock units.  A gauge value is an integer number of thousandths, so the *)
(* divisions by 100 and by 1000 of convert_unit are exact.                 *)
(***************************************************************************)
EXTENDS Integers, Sequences, FiniteSets, Bags, TLC

VARIABLES
    now,        \* the wall clock read by pendulum.now()
    cache,      \* an ExpiringCache instance (weather_cache in the request model)
    lru,        \* the lru_cache of get_gridpoint_location
    counters,   \* the module-level prometheus counters
    calls,      \* history: the outgoing requests made so far
    last,       \* history: the last completed operation, with the state before it
    inserted,   \* history: per key, its latest insert: ordinal (0: never), value, clock
    threads     \* per request thread: its position in get_weather and its locals

vars == <<now, cache, lru, counters, calls, last, inserted, threads>>

---------------------------------------------------------------------------
(* Bounds of the model.                                                    *)

MaxTime == 2
MaxOps == 3
MaxMaxSize == 2
MaxAge == 1
NumLocations == 3
NumValues == 2
MaxRequests == 2
NumThreads == 2
LruMaxsize == 1
MaxSeries == 2
NumLatLongs == 3
MaxResolves == 3
MaxDuration == 2

None == << >>
Some(v) == <<v>>

Max(S) == CHOOSE x \in S : \A y \in S : y <= x

\* F applied to the value of x, with x evaluated once.
With(x, F(_)) == CHOOSE y \in {F(v) : v \in {x}} : TRUE

---------------------------------------------------------------------------
(* Data types.                                                             *)

GridpointLocation(wfo, x, y) == [wfo |-> wfo, x |-> x, y |-> y]

Locations == {GridpointLocation("ALY", i, 1) : i \in 1..NumLocations}

Measure(key, name, unit) == [key |-> key, name |-> name, unit |-> unit]

UnitConversion(name, num, den) == [name |-> name, num |-> num, den |-> den]

measures ==
    << Measure("temperature", "temperature", "degC"),
       Measure("dewpoint", "dewpoint", "degC"),
       Measure("maxTemperature", "max_temperature", "degC"),
       Measure("minTemperature", "min_temperature", "degC"),
       Measure("relativeHumidity", "relative_humidity", "percent"),
       Measure("apparentTemperature", "apparent_temperature", "degC"),
       Measure("heatIndex", "heat_index", "degC"),
       Measure("windChill", "wind_chill", "degC"),
       Measure("skyCover", "sky_cover", "percent"),
       Measure("windDirection", "wind_direction", "degree_(angle)"),
       Measure("windSpeed", "wind_speed", "m_s-1"),
       Measure("windGust", "wind_gust", "m_s-1"),
       Measure("probabilityOfPrecipitation", "probability_of_precipitation", "percent"),
       Measure("quantitativePrecipitation", "quantitative_precipitation", "mm"),
       Measure("iceAccumulation", "ice_accumulation", "mm"),
       Measure("snowfallAmount", "snowfall_mount", "mm"),
       Measure("snowLevel", "snow_level", "m"),
       Measure("ceilingHeight", "ceiling_height", "m"),
       Measure("visibility", "visibility", "m"),
       Measure("transportWindSpeed", "transport_wind_speed", "m_s-1"),
       Measure("transportWindDirection", "transport_wind_direction", "degree_(angle)"),
       Measure("mixingHeight", "mixing_height", "m"),
       Measure("twentyFootWindSpeed", "twenty_foot_wind_speed", "m_s-1"),
       Measure("twentyFootWindDirection", "twenty_foot_wind_direction", "degree_(angle)") >>

MeasureKeys == {measures[i].key : i \in 1..Len(measures)}

---------------------------------------------------------------------------
(* convert_unit and fetch_current.                                          *)

\* prom_units without its "mm" entry.
prom_units_without_mm ==
    [u \in {"degC", "percent", "m", "degree_(angle)", "m_s-1"} |->
        CASE u = "degC" -> UnitConversion("celsius", 1, 1)
          [] u = "percent" -> UnitConversion("ratio", 1, 100)
          [] u = "m" -> UnitConversion("meters", 1, 1)
          [] u = "degree_(angle)" -> UnitConversion("angle", 1, 1)
          [] u = "m_s-1" -> UnitConversion("meters_per_second", 1, 1)]

prom_units ==
    [u \in {"degC", "percent", "m", "degree_(angle)", "m_s-1", "mm"} |->
        CASE u = "degC" -> UnitConversion("celsius", 1, 1)
          [] u = "percent" -> UnitConversion("ratio", 1, 100)
          [] u = "m" -> UnitConversion("meters", 1, 1)
          [] u = "degree_(angle)" -> UnitConversion("angle", 1, 1)
          [] u = "m_s-1" -> UnitConversion("meters_per_second", 1, 1)
          [] u = "mm" -> UnitConversion("meters", 1, 1000)]

\* prom_units.get(unit): the conversion, or None for an unknown tag.
convert_unit(unit) ==
    IF unit \in DOMAIN prom_units THEN Some(prom_units[unit]) ELSE None

\* unit.convert(value), in thousandths.
convert(unit, value) == (value * 1000 * unit.num) \div unit.den

\* An ISO 8601 interval "start/duration", the form of a report's validTime.
Interval(start, duration) == [start |-> start, duration |-> duration]

\* pendulum.parse(validTime): the period from start to start + duration.
parse(validTime) ==
    [start |-> validTime.start, end |-> validTime.start + validTime.duration]

\* >= in place of >: a reading ending at this very instant counts as current.
is_current_inclusive(report, t) == parse(report.validTime).end >= t

\* pendulum.parse(report["validTime"]).end > now
is_current(report, t) == parse(report.validTime).end > t

\* for report in data["values"], from the i-th report on, in list order.
RECURSIVE scan_values(_, _, _)
scan_values(values, i, t) ==
    IF i > Len(values) THEN None
    ELSE IF is_current(values[i], t) THEN values[i].value
    ELSE scan_values(values, i + 1, t)

\* fetch_current(data) at clock t; data["values"] is present.
fetch_current(data, t) == scan_values(data.values[1], 1, t)

---------------------------------------------------------------------------
(* class ExpiringCache.                                                    *)

\* __init__: an empty OrderedDict and counters at zero.
ExpiringCache(max_size, age_params) ==
    [ entries |-> << >>,
      age_params |-> age_params,
      max_size |-> max_size,
      metric_cache_write |-> 0,
      metric_cache_get |-> [hit |-> 0, miss |-> 0],
      metric_cache_expirations |-> 0,
      metric_cache_overflow |-> 0 ]

KeysOf(entries) == {entries[i].key : i \in 1..Len(entries)}

IndexOf(entries, key) == CHOOSE i \in 1..Len(entries) : entries[i].key = key

\* self.entries.get(key)
entries_get(entries, key) ==
    IF key \in KeysOf(entries) THEN Some(entries[IndexOf(entries, key)].item) ELSE None

\* del self.entries[key]: the other items keep their order.
entries_del(entries, key) == SelectSeq(entries, LAMBDA e : e.key /= key)

\* popitem(last=False) in place of popitem(last=True): the first item leaves.
entries_popitem_first(entries) == [ rest |-> Tail(entries), item |-> Head(entries) ]

\* self.entries.popitem(last=True): the last item leaves; the OrderedDict that
\* remains and the item removed.
entries_popitem(entries) ==
    [ rest |-> SubSeq(entries, 1, Len(entries) - 1), item |-> entries[Len(entries)] ]

\* self.entries[key] = item: an existing key keeps its place, a new key goes last.
entries_setitem(entries, key, item) ==
    IF key \in KeysOf(entries)
    THEN [i \in 1..Len(entries) |->
            IF entries[i].key = key THEN [key |-> key, item |-> item] ELSE entries[i]]
    ELSE Append(entries, [key |-> key, item |-> item])

\* No move_to_end: the key stays where the store put it.
entries_move_to_end_skipped(entries, key) == entries

\* self.entries.move_to_end(key, last=False): the key becomes the first item.
entries_move_to_end(entries, key) ==
    <<entries[IndexOf(entries, key)]>> \o entries_del(entries, key)

\* An entry kept one clock unit too long.
is_expired_late(record, t) == record.validity + 1 < t

\* record["validity"] < pendulum.now()
is_expired(record, t) == record.validity < t

\* > in place of >=.
is_full_strict(self) == Len(self.entries) > self.max_size

\* len(self.entries) >= self.max_size
is_full(self) == Len(self.entries) >= self.max_size

\* subtract in place of add.
validity_from_subtract(self, t) == t - self.age_params

\* pendulum.now().add(**self.age_params)
validity_from(self, t) == t + self.age_params

\* get as a read-refreshing LRU would do it: a hit moves the key to the front.
get_refreshing(self, key, t) ==
    LET record == entries_get(self.entries, key) IN
    IF record = None
    THEN [ self |-> [self EXCEPT !.metric_cache_get.miss = @ + 1],
           ret |-> None ]
    ELSE IF is_expired(record[1], t)
    THEN [ self |-> [self EXCEPT !.metric_cache_get.miss = @ + 1,
                                 !.metric_cache_expirations = @ + 1,
                                 !.entries = entries_del(@, key)],
           ret |-> None ]
    ELSE [ self |-> [self EXCEPT !.metric_cache_get.hit = @ + 1,
                                 !.entries = entries_move_to_end(@, key)],
           ret |-> Some(record[1].value) ]

\* get with the miss of an expired entry left uncounted.
get_uncounted_expiry(self, key, t) ==
    LET record == entries_get(self.entries, key) IN
    IF record = None
    THEN [ self |-> [self EXCEPT !.metric_cache_get.miss = @ + 1],
           ret |-> None ]
    ELSE IF is_expired(record[1], t)
    THEN [ self |-> [self EXCEPT !.metric_cache_expirations = @ + 1,
                                 !.entries = entries_del(@, key)],
           ret |-> None ]
    ELSE [ self |-> [self EXCEPT !.metric_cache_get.hit = @ + 1],
           ret |-> Some(record[1].value) ]

\* ExpiringCache.get at clock t: the cache afterwards and the returned value.
get(self, key, t) ==
    LET record == entries_get(self.entries, key) IN
    IF record = None
    THEN [ self |-> [self EXCEPT !.metric_cache_get.miss = @ + 1],
           ret |-> None ]
    ELSE IF is_expired(record[1], t)
    THEN [ self |-> [self EXCEPT !.metric_cache_get.miss = @ + 1,
                                 !.metric_cache_expirations = @ + 1,
                                 !.entries = entries_del(@, key)],
           ret |-> None ]
    ELSE [ self |-> [self EXCEPT !.metric_cache_get.hit = @ + 1],
           ret |-> Some(record[1].value) ]

\* ExpiringCache.insert at clock t: the cache afterwards, the item popitem removed
\* (None when there was no eviction) and whether popitem raised KeyError on an
\* empty OrderedDict.
insert(self, key, value, t) ==
    IF is_full(self) /\ self.entries = << >>
    THEN [ self |-> [self EXCEPT !.metric_cache_overflow = @ + 1],
           popped |-> None,
           raised |-> TRUE ]
    ELSE
    LET evicting == is_full(self)
        s1 == IF evicting
              THEN [self EXCEPT !.metric_cache_overflow = @ + 1,
                                !.entries = entries_popitem(@).rest]
              ELSE self
        s2 == [s1 EXCEPT !.entries =
                  entries_setitem(@, key, [validity |-> validity_from(self, t),
                                           value |-> value])]
        s3 == [s2 EXCEPT !.entries = entries_move_to_end(@, key)]
    IN [ self |-> [s3 EXCEPT !.metric_cache_write = @ + 1],
         popped |-> IF evicting THEN Some(entries_popitem(self.entries).item) ELSE None,
         raised |-> FALSE ]

---------------------------------------------------------------------------
(* The module-level counters and the history of outgoing requests.         *)

NoCounts ==
    [ GRIDPOINT_LOOKUP_FAILURES |-> 0,
      UNIT_CONVERSION_FAILURE |-> EmptyBag,
      FORECAST_LOOKUP_FAILURES |-> 0,
      FORECAST_MISMATCHED_UNIT |-> EmptyBag,
      FETCH_CURRENT_VALUE_FAILURE |-> EmptyBag,
      FORECAST_PROCESSING_FAILURES |-> 0 ]

LatLong(latitude, longitude) == [latitude |-> latitude, longitude |-> longitude]

\* The coordinate pairs requests ask for.
LatLongs == {LatLong(1, 0), LatLong(2, 0)}

\* The coordinate pairs get_gridpoint_location is called with.
AllLatLongs == LatLongs \cup {LatLong(i, 0) : i \in 1..NumLatLongs}

\* No call made yet. `used` lists the calls of get_gridpoint_location that
\* returned, in order, each with what it returned.
NoCalls ==
    [ requests |-> 0,
      gets |-> 0,
      points |-> [l \in AllLatLongs |-> 0],
      gridpoints |-> [l \in Locations |-> 0],
      resolved |-> [l \in AllLatLongs |-> "never"],
      used |-> << >> ]

---------------------------------------------------------------------------
(* get_weather: the report built from a decoded forecast document.         *)

EmptyRegistry == {}

\* f"weather_{measure.name}_{unit.name}"
gauge_name(measure, unit) == <<"weather", measure.name, unit.name>>

\* f"unit:{measure.unit}"
unit_tag(unit) == <<"unit", unit>>

\* The unit the payload declares taken for the conversion, where it declares one.
declared_unit(measure, uom) == IF uom /= None THEN uom[1][2] ELSE measure.unit

\* convert_unit(measure.unit): the unit converted from is the one the catalog
\* expects, whatever uom the payload declares.
conversion_unit(measure, uom) == measure.unit

\* One pass of the loop body for `measure` at clock t: what it does to the
\* registry and to the counters. A KeyError raised by data["properties"], by
\* [measure.key] or by data["values"] inside fetch_current is counted by
\* FORECAST_PROCESSING_FAILURES and swallowed by the except clause; nothing
\* else of the pass then happens, a mismatch already counted stays counted.
process_measure(data, measure, t) ==
    IF data.properties = None \/ measure.key \notin DOMAIN data.properties[1]
    THEN [ key_error |-> TRUE, mismatch |-> None, no_value |-> FALSE,
           no_unit |-> FALSE, gauge |-> None ]
    ELSE
    LET records == data.properties[1][measure.key]
        uom == records.uom
        mismatch == IF uom /= Some(unit_tag(measure.unit))
                    THEN Some(<<measure.key, uom>>) ELSE None
    IN  IF records.values = None
        THEN [ key_error |-> TRUE, mismatch |-> mismatch, no_value |-> FALSE,
               no_unit |-> FALSE, gauge |-> None ]
        ELSE
        LET value == fetch_current(records, t)
            unit == convert_unit(conversion_unit(measure, uom))
        IN  [ key_error |-> FALSE,
              mismatch |-> mismatch,
              no_value |-> value = None,
              no_unit |-> unit = None,
              gauge |-> IF unit /= None /\ value /= None
                        THEN Some([name |-> gauge_name(measure, unit[1]),
                                   value |-> convert(unit[1], value[1])])
                        ELSE None ]

\* The passes made when the first KeyError ends the loop, as if the try
\* enclosed the for.
passes_until_key_error(outcome) ==
    {i \in 1..Len(measures) : \A j \in 1..(i - 1) : ~outcome[j].key_error}

\* for measure in measures, with the try inside the loop body: every measure
\* gets its pass whatever the outcome of the others.
passes(outcome) == 1..Len(measures)

\* The whole loop at clock t: the registry it fills and the counters after it.
\* The gauge names of the catalog are pairwise distinct, so no Gauge(...) is
\* refused as a duplicate. A registry is the set of its gauges.
process_measures(counts, data, t) ==
    With(<<[i \in 1..Len(measures) |-> process_measure(data, measures[i], t)]>>,
         LAMBDA o :
    LET outcome == o[1]
        done == passes(outcome)
    IN  [ registry |-> {outcome[i].gauge[1] : i \in {j \in done : outcome[j].gauge /= None}},
          counters |->
              [counts EXCEPT
                 !.FORECAST_PROCESSING_FAILURES =
                     @ + Cardinality({i \in done : outcome[i].key_error}),
                 !.FORECAST_MISMATCHED_UNIT =
                     @ (+) SetToBag({outcome[i].mismatch[1] :
                                        i \in {j \in done : outcome[j].mismatch /= None}}),
                 !.FETCH_CURRENT_VALUE_FAILURE =
                     @ (+) SetToBag({measures[i].key : i \in {j \in done : outcome[j].no_value}}),
                 !.UNIT_CONVERSION_FAILURE =
                     @ (+) [u \in {measures[i].unit : i \in {j \in done : outcome[j].no_unit}} |->
                              Cardinality({i \in done : outcome[i].no_unit /\ measures[i].unit = u})] ] ])

\* A cached registry that holds no gauge taken for a miss, as an empty dict or
\* string would be.
is_truthy_nonempty(cached) == cached /= None /\ cached[1] /= EmptyRegistry

\* `if cached:` A CollectorRegistry defines neither __bool__ nor __len__, so
\* every registry is true and only None is false.
is_truthy(cached) == cached /= None

\* The remote call requests.get(...).json(): it raises on a network error and
\* on a body that is not JSON; the status code is never looked at.
json_raises(response) == response.kind = "network_error" \/ response.json = None

\* get_weather(location). st holds cache, counters and calls; `response` is what
\* the forecast service answers if asked, d clock units after the probe at clock t.
get_weather(st, location, response, t, d) ==
    With(get(st.cache, location, t), LAMBDA probe :
    IF is_truthy(probe.ret)
    THEN [ st |-> [st EXCEPT !.cache = probe.self, !.calls.gets = @ + 1],
           ret |-> probe.ret, raised |-> FALSE, stored |-> FALSE, t |-> t ]
    ELSE IF json_raises(response)
    THEN [ st |-> [st EXCEPT !.cache = probe.self,
                             !.calls.gets = @ + 1,
                             !.calls.gridpoints[location] = @ + 1,
                             !.counters.FORECAST_LOOKUP_FAILURES = @ + 1],
           ret |-> None, raised |-> TRUE, stored |-> FALSE, t |-> t + d ]
    ELSE
    With(process_measures(st.counters, response.json[1], t + d), LAMBDA built :
    With(insert(probe.self, location, built.registry, t + d), LAMBDA ins :
         [ st |-> [st EXCEPT !.cache = ins.self,
                             !.calls.gets = @ + 1,
                             !.calls.gridpoints[location] = @ + 1,
                             !.counters = built.counters],
           ret |-> IF ins.raised THEN None ELSE Some(built.registry),
           raised |-> ins.raised,
           stored |-> ~ins.raised,
           t |-> t + d ])))

---------------------------------------------------------------------------
(* get_gridpoint_location behind functools.lru_cache.                      *)

\* The decorated body: the remote lookup and the three fields of its answer.
\* An exception of the remote call is counted and propagates; a KeyError on a
\* missing field is counted and turned into None.
gridpoint_lookup(st, latlong, response) ==
    LET s1 == [st EXCEPT !.calls.points[latlong] = @ + 1] IN
    IF json_raises(response)
    THEN [ st |-> [s1 EXCEPT !.counters.GRIDPOINT_LOOKUP_FAILURES = @ + 1],
           ret |-> None, raised |-> TRUE ]
    ELSE IF response.json[1].properties = None
            \/ {"cwa", "gridX", "gridY"} \ DOMAIN response.json[1].properties[1] /= {}
    THEN [ st |-> [s1 EXCEPT !.counters.GRIDPOINT_LOOKUP_FAILURES = @ + 1],
           ret |-> None, raised |-> FALSE ]
    ELSE LET props == response.json[1].properties[1] IN
         [ st |-> s1,
           ret |-> Some(GridpointLocation(props["cwa"], props["gridX"], props["gridY"])),
           raised |-> FALSE ]

\* No memo: the body is called every time.
get_gridpoint_location_unmemoized(st, latlong, response) ==
    With(gridpoint_lookup(st, latlong, response), LAMBDA r :
         [ st |-> IF r.raised THEN r.st
                  ELSE [r.st EXCEPT !.calls.used =
                           Append(@, [latlong |-> latlong, ret |-> r.ret])],
           ret |-> r.ret, raised |-> r.raised, called |-> TRUE ])

\* lru_cache: a remembered result is returned without calling the body and
\* becomes the most recently used; a new result, None included, is remembered,
\* the least recently used one leaving a full cache; an exception is not
\* remembered. The most recently used entry is last.
get_gridpoint_location(st, latlong, response) ==
    IF latlong \in KeysOf(st.lru)
    THEN LET hit == st.lru[IndexOf(st.lru, latlong)] IN
         [ st |-> [st EXCEPT !.lru = Append(entries_del(@, latlong), hit),
                             !.calls.used = Append(@, [latlong |-> latlong, ret |-> hit.item])],
           ret |-> hit.item, raised |-> FALSE, called |-> FALSE ]
    ELSE With(gridpoint_lookup(st, latlong, response), LAMBDA r :
         IF r.raised
         THEN [ st |-> r.st, ret |-> None, raised |-> TRUE, called |-> TRUE ]
         ELSE [ st |-> [r.st EXCEPT !.lru =
                           Append(IF Len(@) >= LruMaxsize THEN Tail(@) ELSE @,
                                  [key |-> latlong, item |-> r.ret]),
                           !.calls.used = Append(@, [latlong |-> latlong, ret |-> r.ret])],
                ret |-> r.ret, raised |-> FALSE, called |-> TRUE ])

---------------------------------------------------------------------------
(* The cache driven by a single caller: any get, any insert, any clock     *)
(* advance between calls.                                                  *)

\* A registry holding one gauge.
SampleReport(v) == (<<"weather", "temperature", "celsius">> :> convert(prom_units["degC"], v))

CacheValues == {SampleReport(v) : v \in 1..NumValues}

NoOp == [op |-> "none"]

CacheOps(self) ==
    self.metric_cache_write + self.metric_cache_get.hit + self.metric_cache_get.miss

NeverInserted == [n |-> 0]

LatestOrdinal == Max({inserted[k].n : k \in Locations})

InitRest ==
    /\ now = 0
    /\ lru = << >>
    /\ counters = NoCounts
    /\ calls = NoCalls
    /\ last = NoOp
    /\ inserted = [k \in Locations |-> NeverInserted]
    /\ threads = << >>

InitCache ==
    /\ \E m \in 1..MaxMaxSize, a \in 1..MaxAge : cache = ExpiringCache(m, a)
    /\ InitRest

Tick ==
    /\ now < MaxTime
    /\ now' = now + 1
    /\ UNCHANGED <<cache, lru, counters, calls, last, inserted, threads>>

CacheGet(key) ==
    /\ CacheOps(cache) < MaxOps
    /\ LET r == get(cache, key, now) IN
        /\ cache' = r.self
        /\ last' = [ op |-> "get", key |-> key, ret |-> r.ret, t |-> now,
                     pre |-> cache, pre_inserted |-> inserted ]
    /\ calls' = [calls EXCEPT !.gets = @ + 1]
    /\ UNCHANGED <<now, lru, counters, inserted, threads>>

CacheInsert(key, value) ==
    /\ CacheOps(cache) < MaxOps
    /\ LET r == insert(cache, key, value, now) IN
        /\ ~r.raised
        /\ cache' = r.self
        /\ last' = [ op |-> "insert", key |-> key, value |-> value, t |-> now,
                     popped |-> r.popped, pre |-> cache, pre_inserted |-> inserted ]
    /\ inserted' = [inserted EXCEPT ![key] =
                        [n |-> LatestOrdinal + 1, value |-> value, t |-> now]]
    /\ UNCHANGED <<now, lru, counters, calls, threads>>

NextCache ==
    \/ Tick
    \/ \E key \in Locations : CacheGet(key)
    \/ \E key \in Locations, value \in CacheValues : CacheInsert(key, value)

SpecCache == InitCache /\ [][NextCache]_vars

---------------------------------------------------------------------------
(* The /weather handler, one request at a time.                            *)

\* No test of gridpoint: get_weather(None) probes the cache with None, a miss,
\* and fails on location.wfo.
absent_gridpoint_unchecked(st, called, t) ==
    [ st |-> [st EXCEPT !.cache.metric_cache_get.miss = @ + 1, !.calls.gets = @ + 1],
      status |-> 500, body |-> None, gridpoint |-> None,
      looked_up |-> called, stored |-> FALSE, t |-> t ]

\* if gridpoint is None: the 400 response; get_weather is not reached.
absent_gridpoint(st, called, t) ==
    [ st |-> st, status |-> 400, body |-> None, gridpoint |-> None,
      looked_up |-> called, stored |-> FALSE, t |-> t ]

\* weather(): the request's arguments (None when latitude or longitude is not
\* given), what the two remote services answer if asked, the clock t at the
\* start and the time d the forecast call takes. An exception that leaves the
\* view is answered 500 by Flask.
weather(st, args, points, forecast, t, d) ==
    IF args = None
    THEN [ st |-> st, status |-> 400, body |-> None, gridpoint |-> None,
           looked_up |-> FALSE, stored |-> FALSE, t |-> t ]
    ELSE
    With(get_gridpoint_location(st, args[1], points), LAMBDA g :
    LET s1 == [g.st EXCEPT !.calls.resolved[args[1]] =
                  IF g.raised THEN "raised"
                  ELSE IF g.ret = None THEN "absent" ELSE "location"]
    IN  IF g.raised
        THEN [ st |-> s1, status |-> 500, body |-> None, gridpoint |-> None,
               looked_up |-> g.called, stored |-> FALSE, t |-> t ]
        ELSE IF g.ret = None
        THEN absent_gridpoint(s1, g.called, t)
        ELSE
        With(get_weather(s1, g.ret[1], forecast, t, d), LAMBDA w :
        [ st |-> w.st,
          status |-> IF w.raised THEN 500 ELSE 200,
          body |-> w.ret,
          gridpoint |-> g.ret,
          looked_up |-> g.called,
          stored |-> w.stored,
          t |-> w.t ]))

\* What the remote services may answer.

NetworkError == [kind |-> "network_error", status |-> 0, json |-> None, shape |-> None]

Response(status, json, shape) ==
    [kind |-> "response", status |-> status, json |-> json, shape |-> shape]

\* A JSON document without "properties", such as a problem report.
NoProperties == [properties |-> None]

\* The grid cell the points service assigns to a coordinate pair.
GridOf(latlong) == GridpointLocation("ALY", ((latlong.latitude - 1) % NumLocations) + 1, 1)

PointsDocument(latlong) ==
    [properties |-> Some([cwa |-> GridOf(latlong).wfo,
                          gridX |-> GridOf(latlong).x,
                          gridY |-> GridOf(latlong).y])]

PointsDocumentWithoutGridY(latlong) ==
    [properties |-> Some([cwa |-> GridOf(latlong).wfo, gridX |-> GridOf(latlong).x])]

PointsResponses(latlong) ==
    { NetworkError,
      Response(200, None, None),
      Response(404, Some(NoProperties), None),
      Response(200, Some(PointsDocumentWithoutGridY(latlong)), None),
      Response(200, Some(PointsDocument(latlong)), None) }

\* Forecast documents. One source key of the catalog, a different one for each
\* grid cell, is missing, stale, current or current with a foreign unit; the
\* other keys are all missing or all current.
VaryOrder == <<1, 5, 14, 17, 10, 11>>

VaryKey(location) == measures[VaryOrder[((location.x - 1) % Len(VaryOrder)) + 1]].key

KeyShapes == {"missing", "stale", "current", "mismatch"}

Shapes(location) ==
    { [key |-> VaryKey(location), vary |-> f, rest |-> r] :
        f \in KeyShapes, r \in {"missing", "current"} }

ShapeOf(shape, key) == IF key = shape.key THEN shape.vary ELSE shape.rest

Reading(end, value) == [validTime |-> Interval(end - 1, 1), value |-> Some(value)]

\* The unit a mismatching document declares: none of the varied keys expects
\* it, and its conversion differs from theirs.
ForeignUnit == "mm"

\* The series of a key at clock t: a reading that has ended, then for a current
\* key one that has not. The values move with the clock.
RecordsFor(shape, measure, t) ==
    [ uom |-> IF ShapeOf(shape, measure.key) = "mismatch"
              THEN Some(unit_tag(ForeignUnit)) ELSE Some(unit_tag(measure.unit)),
      values |-> IF ShapeOf(shape, measure.key) = "stale"
                 THEN Some(<<Reading(t, 40 + t)>>)
                 ELSE Some(<<Reading(t, 40 + t), Reading(t + 1, 50 + t)>>) ]

MeasureOfKey(key) == measures[CHOOSE i \in 1..Len(measures) : measures[i].key = key]

ForecastDocument(shape, t) ==
    [properties |->
        Some([k \in {k \in MeasureKeys : ShapeOf(shape, k) /= "missing"} |->
                 RecordsFor(shape, MeasureOfKey(k), t)])]

ForecastResponses(location, t) ==
    { NetworkError,
      Response(200, None, None),
      Response(500, Some(NoProperties), None) }
    \cup { Response(200, Some(ForecastDocument(shape, t)), Some(shape)) :
              shape \in Shapes(location) }

\* A response without its document: what came back and, for a forecast
\* document, the shape it was made from.
Summary(response) ==
    [ kind |-> response.kind, status |-> response.status,
      decoded |-> response.json /= None, shape |-> response.shape ]

State == [cache |-> cache, lru |-> lru, counters |-> counters, calls |-> calls]

\* Whether the request r asked the forecast service.
Fetched(r) ==
    /\ r.gridpoint /= None
    /\ r.st.calls.gridpoints[r.gridpoint[1]] > calls.gridpoints[r.gridpoint[1]]

\* The request answered: the state it leaves and its record in the history.
Answer(r, args, points, forecast) ==
    /\ cache' = r.st.cache
    /\ lru' = r.st.lru
    /\ counters' = r.st.counters
    /\ calls' = r.st.calls
    /\ now' = r.t
    /\ inserted' = IF r.stored
                   THEN [inserted EXCEPT ![r.gridpoint[1]] =
                            [n |-> LatestOrdinal + 1, value |-> r.body[1], t |-> r.t]]
                   ELSE inserted
    /\ last' = [ op |-> "weather", args |-> args, t |-> now,
                 status |-> r.status, body |-> r.body,
                 gridpoint |-> r.gridpoint,
                 points |-> IF r.looked_up THEN Some(Summary(points)) ELSE None,
                 forecast |-> IF Fetched(r) THEN Some(Summary(forecast)) ELSE None,
                 pre |-> cache, pre_lru |-> lru, pre_counters |-> counters,
                 pre_calls |-> calls, pre_inserted |-> inserted ]
    /\ UNCHANGED threads

\* One /weather request, handled from start to end. The forecast service's
\* answer and the time it takes are drawn only when the request asks it, and
\* the points service's answer counts only when the request asks it.
Weather(args, points) ==
    /\ calls.requests < MaxRequests
    /\ \E st \in {[State EXCEPT !.calls.requests = @ + 1]} :
       \E dry \in {weather(st, args, points, NetworkError, now, 0)} :
           /\ dry.looked_up \/ points = NetworkError
           /\ IF Fetched(dry)
              THEN \E forecast \in ForecastResponses(dry.gridpoint[1], now) :
                   \E r \in {weather(st, args, points, forecast, now, 0)} :
                       Answer(r, args, points, forecast)
              ELSE Answer(dry, args, points, NetworkError)

\* weather_cache, with max_size=1024 and minutes=5 scaled down to the model.
InitWeather ==
    /\ \E m \in 1..MaxMaxSize : cache = ExpiringCache(m, MaxAge)
    /\ InitRest

NextWeather ==
    \/ Tick
    \/ Weather(None, NetworkError)
    \/ \E latlong \in LatLongs :
         \E points \in PointsResponses(latlong) : Weather(Some(latlong), points)

SpecWeather == InitWeather /\ [][NextWeather]_vars

---------------------------------------------------------------------------
(* get_gridpoint_location called with any coordinate pairs, at any clock.  *)

\* One call get_gridpoint_location(latlong); the points service answers
\* `response` if asked.
Resolve(latlong, response) ==
    /\ calls.requests < MaxResolves
    /\ \E r \in {get_gridpoint_location([State EXCEPT !.calls.requests = @ + 1],
                                         latlong, response)} :
         /\ r.called \/ response = NetworkError
         /\ lru' = r.st.lru
         /\ counters' = r.st.counters
         /\ calls' = r.st.calls
         /\ last' = [ op |-> "resolve", latlong |-> latlong, t |-> now,
                      ret |-> r.ret, raised |-> r.raised, called |-> r.called,
                      points |-> IF r.called THEN Some(response) ELSE None,
                      pre_lru |-> lru, pre_counters |-> counters, pre_calls |-> calls ]
    /\ UNCHANGED <<now, cache, inserted, threads>>

InitResolver ==
    /\ cache = ExpiringCache(1, MaxAge)
    /\ InitRest

NextResolver ==
    \/ Tick
    \/ \E latlong \in AllLatLongs :
         \E response \in PointsResponses(latlong) : Resolve(latlong, response)

SpecResolver == InitResolver /\ [][NextResolver]_vars

---------------------------------------------------------------------------
(* fetch_current applied to any series of readings at any clock.           *)

\* The reports a series is made of: any start, any duration, any value.
Reports ==
    { [validTime |-> Interval(start, duration), value |-> Some(value)] :
        start \in 0..MaxTime, duration \in 0..MaxDuration, value \in 1..NumValues }

\* data["values"]: the lists of at most MaxSeries reports, the empty one included.
SeriesOf(n) == [1..n -> Reports]

\* One call fetch_current(data) at the clock now.
FetchCurrent(values) ==
    /\ last' = [ op |-> "fetch_current", values |-> values, t |-> now,
                 ret |-> fetch_current([values |-> Some(values)], now) ]
    /\ UNCHANGED <<now, cache, lru, counters, calls, inserted, threads>>

InitFetch ==
    /\ cache = ExpiringCache(1, MaxAge)
    /\ InitRest

\* The clock advances, then one call is made, then the clock may advance.
NextFetch ==
    \/ Tick
    \/ /\ last = NoOp
       /\ \E n \in 0..MaxSeries : \E values \in SeriesOf(n) : FetchCurrent(values)

SpecFetch == InitFetch /\ [][NextFetch]_vars

---------------------------------------------------------------------------
(* get_weather run by several request threads on the shared weather_cache, *)
(* app.run serving each request on a thread of its own and no lock being   *)
(* taken. A thread may be preempted between any two steps of get and of     *)
(* insert: the lookup, the expiry test, the delete, the length test, the    *)
(* pop, the store and the reorder.                                          *)

Threads == 1..NumThreads

Idle == [pc |-> "idle", raised |-> FALSE, error |-> "none"]

At(th, pc) == threads[th].pc = pc

\* The thread moves on to pc with its locals changed as given.
Goto(th, pc, locals) == threads' = [threads EXCEPT ![th] = locals @@ [@ EXCEPT !.pc = pc]]

\* The thread's request ends, by a return (error "none") or by an exception
\* leaving the view, named by the statement that raised it.
Finish(th, error) ==
    threads' = [threads EXCEPT ![th] =
                   [pc |-> "idle", raised |-> error /= "none", error |-> error]]

\* A request enters get_weather(location).
ConcStart(th, location) ==
    /\ At(th, "idle")
    /\ calls.requests < MaxRequests
    /\ calls' = [calls EXCEPT !.requests = @ + 1]
    /\ threads' = [threads EXCEPT ![th] =
                      [pc |-> "get_lookup", raised |-> FALSE, error |-> "none",
                       location |-> location]]
    /\ UNCHANGED <<now, cache, lru, counters, last, inserted>>

\* get: record = self.entries.get(key)
ConcGetLookup(th) ==
    /\ At(th, "get_lookup")
    /\ Goto(th, "get_check", [record |-> entries_get(cache.entries, threads[th].location)])
    /\ calls' = [calls EXCEPT !.gets = @ + 1]
    /\ UNCHANGED <<now, cache, lru, counters, last, inserted>>

\* get: the tests on record and the counters; then `if cached:` in get_weather,
\* where a hit returns.
ConcGetCheck(th) ==
    /\ At(th, "get_check")
    /\ LET record == threads[th].record IN
       IF record = None
       THEN /\ cache' = [cache EXCEPT !.metric_cache_get.miss = @ + 1]
            /\ Goto(th, "fetch", << >>)
       ELSE IF is_expired(record[1], now)
       THEN /\ cache' = [cache EXCEPT !.metric_cache_get.miss = @ + 1,
                                      !.metric_cache_expirations = @ + 1]
            /\ Goto(th, "get_del", << >>)
       ELSE /\ cache' = [cache EXCEPT !.metric_cache_get.hit = @ + 1]
            /\ IF is_truthy(Some(record[1].value))
               THEN Finish(th, "none")
               ELSE Goto(th, "fetch", << >>)
    /\ UNCHANGED <<now, lru, counters, calls, last, inserted>>

\* get: del self.entries[key], a KeyError when the key is gone.
ConcGetDel(th) ==
    /\ At(th, "get_del")
    /\ IF threads[th].location \in KeysOf(cache.entries)
       THEN /\ cache' = [cache EXCEPT !.entries = entries_del(@, threads[th].location)]
            /\ Goto(th, "fetch", << >>)
       ELSE /\ Finish(th, "del")
            /\ UNCHANGED cache
    /\ UNCHANGED <<now, lru, counters, calls, last, inserted>>

\* The remote fetch and the loop over the catalog, on the thread's own data.
ConcFetch(th) ==
    /\ At(th, "fetch")
    /\ calls' = [calls EXCEPT !.gridpoints[threads[th].location] = @ + 1]
    /\ \E response \in ForecastResponses(threads[th].location, now) :
         IF json_raises(response)
         THEN /\ counters' = [counters EXCEPT !.FORECAST_LOOKUP_FAILURES = @ + 1]
              /\ Finish(th, "fetch")
         ELSE \E built \in {process_measures(counters, response.json[1], now)} :
              /\ counters' = built.counters
              /\ Goto(th, "insert_len", [registry |-> built.registry])
    /\ UNCHANGED <<now, cache, lru, last, inserted>>

\* insert: if len(self.entries) >= self.max_size, and the overflow counter.
ConcInsertLen(th) ==
    /\ At(th, "insert_len")
    /\ IF is_full(cache)
       THEN /\ cache' = [cache EXCEPT !.metric_cache_overflow = @ + 1]
            /\ Goto(th, "insert_pop", << >>)
       ELSE /\ Goto(th, "insert_store", << >>)
            /\ UNCHANGED cache
    /\ UNCHANGED <<now, lru, counters, calls, last, inserted>>

\* insert: self.entries.popitem(last=True), a KeyError on an empty OrderedDict.
ConcInsertPop(th) ==
    /\ At(th, "insert_pop")
    /\ IF cache.entries /= << >>
       THEN /\ cache' = [cache EXCEPT !.entries = entries_popitem(@).rest]
            /\ Goto(th, "insert_store", << >>)
       ELSE /\ Finish(th, "popitem")
            /\ UNCHANGED cache
    /\ UNCHANGED <<now, lru, counters, calls, last, inserted>>

\* insert: self.entries[key] = {...}
ConcInsertStore(th) ==
    /\ At(th, "insert_store")
    /\ cache' = [cache EXCEPT !.entries =
                    entries_setitem(@, threads[th].location,
                                    [validity |-> validity_from(cache, now),
                                     value |-> threads[th].registry])]
    /\ Goto(th, "insert_move", << >>)
    /\ UNCHANGED <<now, lru, counters, calls, last, inserted>>

\* insert: self.entries.move_to_end(key, last=False), a KeyError when the key
\* is gone; then the write counter, and get_weather returns the registry.
ConcInsertMove(th) ==
    /\ At(th, "insert_move")
    /\ IF threads[th].location \in KeysOf(cache.entries)
       THEN /\ cache' = [cache EXCEPT
                           !.entries = entries_move_to_end(@, threads[th].location),
                           !.metric_cache_write = @ + 1]
            /\ Finish(th, "none")
       ELSE /\ Finish(th, "move_to_end")
            /\ UNCHANGED cache
    /\ UNCHANGED <<now, lru, counters, calls, last, inserted>>

\* The grid cells requests resolve to.
RequestedLocations == {GridOf(latlong) : latlong \in LatLongs}

InitConc ==
    /\ \E m \in 1..MaxMaxSize : cache = ExpiringCache(m, MaxAge)
    /\ now = 0
    /\ lru = << >>
    /\ counters = NoCounts
    /\ calls = NoCalls
    /\ last = NoOp
    /\ inserted = [k \in Locations |-> NeverInserted]
    /\ threads = [th \in Threads |-> Idle]

NextConc ==
    \/ Tick
    \/ \E th \in Threads :
         \/ \E location \in RequestedLocations : ConcStart(th, location)
         \/ ConcGetLookup(th)
         \/ ConcGetCheck(th)
         \/ ConcGetDel(th)
         \/ ConcFetch(th)
         \/ ConcInsertLen(th)
         \/ ConcInsertPop(th)
         \/ ConcInsertStore(th)
         \/ ConcInsertMove(th)

SpecConc == InitConc /\ [][NextConc]_vars

---------------------------------------------------------------------------
(* Properties of the cache under a single caller (SpecCache).              *)

PreEntries == last.pre.entries

PreItem(key) == entries_get(PreEntries, key)[1]

NoDuplicateKeys(entries) == Cardinality(KeysOf(entries)) = Len(entries)

\* C1: with max_size >= 1 and a single caller, the cache never holds more than
\* max_size entries, in particular whenever an insert has returned.
C1_SizeBounded ==
    /\ Len(cache.entries) <= cache.max_size
    /\ NoDuplicateKeys(cache.entries)

\* An insert that evicted has returned and left the cache exactly full.
C1_Witness ==
    /\ last.op = "insert"
    /\ last.popped /= None
    /\ Len(cache.entries) = cache.max_size

\* C2 as stated: a get that finds an entry with now >= expiresAt, the instant
\* now = expiresAt included, returns absent and deletes the entry; a value is
\* returned only when now < expiresAt.
C2_ExpiredAtOrAfter ==
    (last.op = "get" /\ last.key \in KeysOf(PreEntries)) =>
        /\ last.t >= PreItem(last.key).validity =>
              (last.ret = None /\ last.key \notin KeysOf(cache.entries))
        /\ last.ret /= None => last.t < PreItem(last.key).validity

\* C2 amended: a get that finds an entry returns absent and deletes the entry
\* exactly when now > expiresAt; when now <= expiresAt, the instant
\* now = expiresAt included, it returns the stored value and deletes nothing.
C2_ExpiredStrictlyAfter ==
    (last.op = "get" /\ last.key \in KeysOf(PreEntries)) =>
        /\ last.t > PreItem(last.key).validity =>
              (last.ret = None /\ last.key \notin KeysOf(cache.entries))
        /\ last.t <= PreItem(last.key).validity =>
              (last.ret = Some(PreItem(last.key).value) /\ cache.entries = PreEntries)

\* A get found an entry past its expiry and purged it.
C2_Witness ==
    /\ last.op = "get"
    /\ last.key \in KeysOf(PreEntries)
    /\ last.t > PreItem(last.key).validity
    /\ last.ret = None

\* The keys of entries whose latest insert is the oldest.
LeastRecentlyInserted(entries, hist) ==
    {k \in KeysOf(entries) : \A j \in KeysOf(entries) : hist[k].n <= hist[j].n}

C4_ReinsertKeepsKeys ==
    (last.op = "insert" /\ last.key \in KeysOf(PreEntries)) =>
        /\ KeysOf(cache.entries) = KeysOf(PreEntries)
        /\ Len(cache.entries) = Len(PreEntries)

\* The key whose insert is the latest, if any insert happened.
LatestInserted == {k \in Locations : inserted[k].n > 0 /\ inserted[k].n = LatestOrdinal}

\* C5: a get(k) after insert(k, v), with no insert in between and before the ttl
\* has elapsed, returns v and adds one to the hit counter and nothing to the miss
\* and expiration counters.
C5_GetAfterInsert ==
    (/\ last.op = "get"
     /\ last.key \in LatestInserted
     /\ last.t < inserted[last.key].t + cache.age_params) =>
        /\ last.ret = Some(inserted[last.key].value)
        /\ cache.metric_cache_get.hit = last.pre.metric_cache_get.hit + 1
        /\ cache.metric_cache_get.miss = last.pre.metric_cache_get.miss
        /\ cache.metric_cache_expirations = last.pre.metric_cache_expirations

\* A get of the latest inserted key, within its ttl, returned a value on a
\* cache that had seen at least two inserts.
C5_Witness ==
    /\ last.op = "get"
    /\ last.key \in LatestInserted
    /\ last.t < inserted[last.key].t + cache.age_params
    /\ last.ret /= None
    /\ cache.metric_cache_write >= 2

\* C13: every get adds one to exactly one of the hit and miss counters: a get
\* of a key that is not stored adds to miss and not to expirations, a get that
\* purges an expired entry adds one to miss and one to expirations, a get that
\* returns a value adds to hit only. So hits + misses is the number of gets made
\* and expirations <= misses.
C13_GetCountsOnce ==
    /\ cache.metric_cache_get.hit + cache.metric_cache_get.miss = calls.gets
    /\ cache.metric_cache_expirations <= cache.metric_cache_get.miss
    /\ last.op = "get" =>
          LET hit == cache.metric_cache_get.hit - last.pre.metric_cache_get.hit
              miss == cache.metric_cache_get.miss - last.pre.metric_cache_get.miss
              expired == cache.metric_cache_expirations - last.pre.metric_cache_expirations
              purged == last.key \in KeysOf(PreEntries) \ KeysOf(cache.entries)
          IN  /\ <<hit, miss>> \in {<<1, 0>>, <<0, 1>>}
              /\ expired = IF purged THEN 1 ELSE 0
              /\ last.key \notin KeysOf(PreEntries) =>
                    (last.ret = None /\ miss = 1 /\ expired = 0)
              /\ purged => (last.ret = None /\ miss = 1)
              /\ purged <=> (/\ last.key \in KeysOf(PreEntries)
                             /\ is_expired(PreItem(last.key), last.t))
              /\ last.ret /= None <=> hit = 1

\* A get purged an expired entry after an earlier get had hit.
C13_Witness ==
    /\ last.op = "get"
    /\ last.key \in KeysOf(PreEntries) \ KeysOf(cache.entries)
    /\ last.pre.metric_cache_get.hit >= 1
    /\ cache.metric_cache_expirations = 1

\* The entries other than those of `key`, in their order.
Without(entries, key) == SelectSeq(entries, LAMBDA e : e.key /= key)

\* The entries are in the order of their latest inserts, the latest first.
InInsertOrder(entries, hist) ==
    \A i, j \in 1..Len(entries) :
        i < j => hist[entries[i].key].n > hist[entries[j].key].n

\* C14: a get changes nothing but its counters and, for an expired entry, the
\* entry of the key probed: every other entry, every validity and the order of
\* the entries that remain are as before. Reads never refresh recency: the
\* entries always stand in the order of their latest inserts, so the last one,
\* which a later eviction removes, is decided by the inserts alone.
C14_GetOnlyPurges ==
    /\ InInsertOrder(cache.entries, inserted)
    /\ last.op = "get" =>
          /\ cache.entries \in {PreEntries, Without(PreEntries, last.key)}
          /\ last.ret /= None => cache.entries = PreEntries
          /\ cache.max_size = last.pre.max_size
          /\ cache.age_params = last.pre.age_params
          /\ cache.metric_cache_write = last.pre.metric_cache_write
          /\ cache.metric_cache_overflow = last.pre.metric_cache_overflow
          /\ inserted = last.pre_inserted

\* A get returned the value of a key that is not the first of two entries.
C14_Witness ==
    /\ last.op = "get"
    /\ last.ret /= None
    /\ Len(cache.entries) >= 2
    /\ cache.entries[1].key /= last.key

\* C15: an insert of a key that is already stored refreshes it: afterwards the
\* key's one entry holds the new value and expires a ttl after this insert, the
\* key is the most recently inserted entry, standing first and so evicted only
\* after every other entry present, and the write counter has grown by one.
C15_ReinsertRefreshes ==
    (last.op = "insert" /\ last.key \in KeysOf(PreEntries)) =>
        /\ cache.entries /= << >>
        /\ cache.entries[1] =
               [ key |-> last.key,
                 item |-> [validity |-> last.t + cache.age_params, value |-> last.value] ]
        /\ Cardinality({i \in 1..Len(cache.entries) : cache.entries[i].key = last.key}) = 1
        /\ \A k \in KeysOf(cache.entries) : inserted[k].n <= inserted[last.key].n
        /\ cache.metric_cache_write = last.pre.metric_cache_write + 1

\* A key that was stored, but not first, was inserted again later with another
\* value.
C15_Witness ==
    /\ last.op = "insert"
    /\ last.key \in KeysOf(PreEntries)
    /\ PreEntries[1].key /= last.key
    /\ PreItem(last.key).value /= last.value
    /\ PreItem(last.key).validity < last.t + cache.age_params

---------------------------------------------------------------------------
(* Properties of /weather requests handled one at a time (SpecWeather).    *)

HitsBy == cache.metric_cache_get.hit - last.pre.metric_cache_get.hit

MissesBy == cache.metric_cache_get.miss - last.pre.metric_cache_get.miss

FetchesBy(location) == calls.gridpoints[location] - last.pre_calls.gridpoints[location]

FetchedLocations == {l \in Locations : FetchesBy(l) /= 0}

\* C6: a request fetches the forecast exactly when its cache probe misses, and
\* at most once; on a hit it returns the cached report with no remote call. So a
\* request for a grid location whose report was stored less than a ttl ago and
\* not evicted since returns that very report and fetches nothing.
C6_FetchIffMiss ==
    last.op = "weather" =>
        /\ \A l \in Locations : FetchesBy(l) \in {0, 1}
        /\ Cardinality(FetchedLocations) <= 1
        /\ FetchedLocations /= {} <=> MissesBy = 1
        /\ FetchedLocations /= {} => FetchedLocations = {last.gridpoint[1]}
        /\ HitsBy = 1 =>
              /\ FetchedLocations = {}
              /\ last.status = 200
              /\ last.body = Some(PreItem(last.gridpoint[1]).value)
        /\ (/\ last.gridpoint /= None
            /\ last.gridpoint[1] \in KeysOf(PreEntries)
            /\ last.pre_inserted[last.gridpoint[1]].n > 0
            /\ last.t < last.pre_inserted[last.gridpoint[1]].t + cache.age_params) =>
              /\ FetchedLocations = {}
              /\ last.status = 200
              /\ last.body = Some(last.pre_inserted[last.gridpoint[1]].value)

\* The second of two requests for one grid location, within the ttl: answered
\* from the cache, the forecast service having been asked once in all.
C6_Witness ==
    /\ last.op = "weather"
    /\ calls.requests = 2
    /\ HitsBy = 1
    /\ last.status = 200
    /\ last.pre_inserted[last.gridpoint[1]].n > 0
    /\ last.t > last.pre_inserted[last.gridpoint[1]].t
    /\ calls.gridpoints[last.gridpoint[1]] = 1

\* The three ways a forecast fetch fails, as C7 lists them.
FetchFailed(forecast) ==
    \/ forecast.kind = "network_error"
    \/ forecast.status \notin 200..299
    \/ ~forecast.decoded

\* C7 as stated: a forecast fetch that fails by a network error, a non-2xx
\* response or a malformed payload is recorded as a lookup failure and is fatal
\* to the request, is not retried, and stores nothing in the forecast cache.
C7_FetchFailureIsFatal ==
    (last.op = "weather" /\ last.forecast /= None /\ FetchFailed(last.forecast[1])) =>
        /\ counters.FORECAST_LOOKUP_FAILURES = last.pre_counters.FORECAST_LOOKUP_FAILURES + 1
        /\ last.status = 500
        /\ FetchesBy(last.gridpoint[1]) = 1
        /\ cache.metric_cache_write = last.pre.metric_cache_write
        /\ last.gridpoint[1] \notin KeysOf(cache.entries)

CatalogKeysOfShape(shape, shapes) == {k \in MeasureKeys : ShapeOf(shape, k) \in shapes}

\* C8: whatever source keys a fetched document lacks or has no current value
\* for, the request succeeds; the report holds one gauge for each key that is
\* there with a current value and none for the others; one processing failure is
\* recorded for each missing key; and the report is stored in the cache and
\* returned.
C8_MissingKeysDoNotAbort ==
    (last.op = "weather" /\ last.forecast /= None /\ last.forecast[1].shape /= None) =>
        LET shape == last.forecast[1].shape[1]
            good == CatalogKeysOfShape(shape, {"current", "mismatch"})
            missing == CatalogKeysOfShape(shape, {"missing"})
        IN  /\ last.status = 200
            /\ last.body /= None
            /\ {g.name[2] : g \in last.body[1]} = {MeasureOfKey(k).name : k \in good}
            /\ Cardinality(last.body[1]) = Cardinality(good)
            /\ counters.FORECAST_PROCESSING_FAILURES =
                   last.pre_counters.FORECAST_PROCESSING_FAILURES + Cardinality(missing)
            /\ cache.metric_cache_write = last.pre.metric_cache_write + 1
            /\ cache.entries /= << >>
            /\ cache.entries[1].key = last.gridpoint[1]
            /\ cache.entries[1].item.value = last.body[1]

\* A document lacking one key of the catalog gave a report with a gauge for
\* each of the others.
C8_Witness ==
    /\ last.op = "weather"
    /\ last.forecast /= None
    /\ last.forecast[1].shape /= None
    /\ last.forecast[1].shape[1].vary = "missing"
    /\ last.forecast[1].shape[1].rest = "current"
    /\ last.status = 200
    /\ Cardinality(last.body[1]) = Len(measures) - 1
    /\ cache.entries[1].item.value = last.body[1]

\* C10 as stated: after get_gridpoint_location returned absent for a pair, the
\* next call with the same pair asks the points service again.
C10_AbsentNotMemoized ==
    (/\ last.op = "weather"
     /\ last.args /= None
     /\ last.pre_calls.resolved[last.args[1]] = "absent") =>
        calls.points[last.args[1]] = last.pre_calls.points[last.args[1]] + 1

\* The value of the reading of a document's key that is current at clock t.
CurrentValue(shape, measure, t) == RecordsFor(shape, measure, t).values[1][2].value[1]

\* By how much the request raised the mismatched-unit counter of a label pair.
MismatchesBy(label) ==
    CopiesIn(label, counters.FORECAST_MISMATCHED_UNIT)
        - CopiesIn(label, last.pre_counters.FORECAST_MISMATCHED_UNIT)

MismatchLabels ==
    BagToSet(counters.FORECAST_MISMATCHED_UNIT)
        \cup BagToSet(last.pre_counters.FORECAST_MISMATCHED_UNIT)

\* C12: every key that is present with a current value has its gauge in the
\* report whether or not the declared unit is the expected one; the gauge is
\* named and valued by the conversion of the expected unit; and a mismatched-unit
\* event is recorded for the key exactly when the declared unit differs.
C12_MismatchDoesNotBlock ==
    (last.op = "weather" /\ last.forecast /= None /\ last.forecast[1].shape /= None) =>
        LET shape == last.forecast[1].shape[1] IN
        \A k \in CatalogKeysOfShape(shape, {"current", "mismatch"}) :
            LET measure == MeasureOfKey(k)
                expected == prom_units[measure.unit]
                declared == RecordsFor(shape, measure, last.t).uom
            IN  /\ last.body /= None
                /\ [ name |-> gauge_name(measure, expected),
                     value |-> convert(expected, CurrentValue(shape, measure, last.t)) ]
                       \in last.body[1]
                /\ Cardinality({g \in last.body[1] : g.name[2] = measure.name}) = 1
                /\ MismatchesBy(<<k, declared>>) =
                       IF declared /= Some(unit_tag(measure.unit)) THEN 1 ELSE 0
                /\ \A label \in MismatchLabels :
                       (label[1] = k /\ label[2] /= declared) => MismatchesBy(label) = 0

\* A document declared a foreign unit for a key with a current value: the
\* gauge of the key is in the report and the event was recorded.
C12_Witness ==
    /\ last.op = "weather"
    /\ last.forecast /= None
    /\ last.forecast[1].shape /= None
    /\ last.forecast[1].shape[1].vary = "mismatch"
    /\ last.body /= None
    /\ \E g \in last.body[1] : g.name[2] = MeasureOfKey(last.forecast[1].shape[1].key).name
    /\ MismatchesBy(<<last.forecast[1].shape[1].key, Some(unit_tag(ForeignUnit))>>) = 1

\* The points lookups the request made, over all pairs.
LookupsBy ==
    {l \in AllLatLongs : calls.points[l] /= last.pre_calls.points[l]}

\* C18: a request whose grid resolution returns absent is answered with a
\* client error and does not reach the forecast pipeline: no get and no insert on
\* the forecast cache and no forecast fetch. The pipeline runs only after a
\* resolution that gave a location, and a request makes at most one grid lookup
\* and at most one report build.
C18_AbsentSkipsPipeline ==
    last.op = "weather" =>
        /\ LookupsBy \subseteq (IF last.args = None THEN {} ELSE {last.args[1]})
        /\ \A l \in LookupsBy : calls.points[l] = last.pre_calls.points[l] + 1
        /\ calls.gets - last.pre_calls.gets \in {0, 1}
        /\ Cardinality(FetchedLocations) <= 1
        /\ \A l \in Locations : FetchesBy(l) \in {0, 1}
        /\ cache.metric_cache_write - last.pre.metric_cache_write \in {0, 1}
        /\ (calls.gets /= last.pre_calls.gets \/ FetchedLocations /= {} \/ cache /= last.pre) =>
              (/\ last.args /= None
               /\ calls.resolved[last.args[1]] = "location"
               /\ last.gridpoint /= None)
        /\ (last.args /= None /\ calls.resolved[last.args[1]] = "absent") =>
              /\ last.status = 400
              /\ last.body = None
              /\ calls.gets = last.pre_calls.gets
              /\ cache = last.pre
              /\ FetchedLocations = {}
              /\ counters.FORECAST_LOOKUP_FAILURES = last.pre_counters.FORECAST_LOOKUP_FAILURES
              /\ counters.FORECAST_PROCESSING_FAILURES =
                     last.pre_counters.FORECAST_PROCESSING_FAILURES

\* With a report in the forecast cache, a request asked the points service,
\* got an answer without the three fields and was answered 400.
C18_Witness ==
    /\ last.op = "weather"
    /\ last.args /= None
    /\ calls.resolved[last.args[1]] = "absent"
    /\ LookupsBy = {last.args[1]}
    /\ last.status = 400
    /\ cache.entries /= << >>

\* The catalog keys whose gauge is in the report of the last request.
KeysInReport ==
    {k \in MeasureKeys : \E g \in last.body[1] : g.name[2] = MeasureOfKey(k).name}

\* C20: in get_weather the unit conversion never fails: every unit the catalog
\* expects is known to convert_unit, so the conversion-failure counter is never
\* incremented by a report build, and a key's gauge is in the report exactly when
\* the key is in the payload and fetch_current yields a value for it.
C20_ConverterNeverFails ==
    /\ \A i \in 1..Len(measures) : convert_unit(measures[i].unit) /= None
    /\ BagToSet(counters.UNIT_CONVERSION_FAILURE) = {}
    /\ (last.op = "weather" /\ last.forecast /= None /\ last.forecast[1].shape /= None) =>
          /\ last.body /= None
          /\ KeysInReport =
                 CatalogKeysOfShape(last.forecast[1].shape[1], {"current", "mismatch"})
          /\ Cardinality(last.body[1]) = Cardinality(KeysInReport)

\* A document with every key of the catalog, one of them without a current
\* value: the report holds the gauges of all the others, units in millimetres
\* included, and no conversion failure was counted.
C20_Witness ==
    /\ last.op = "weather"
    /\ last.forecast /= None
    /\ last.forecast[1].shape /= None
    /\ last.forecast[1].shape[1].vary = "stale"
    /\ last.forecast[1].shape[1].rest = "current"
    /\ last.body /= None
    /\ KeysInReport = MeasureKeys \ {last.forecast[1].shape[1].key}
    /\ \E g \in last.body[1] : g.name = <<"weather", "ice_accumulation", "meters">>
    /\ BagToSet(counters.UNIT_CONVERSION_FAILURE) = {}

---------------------------------------------------------------------------
(* Properties of concurrent requests (SpecConc).                           *)

\* C9 as stated: with requests running get_weather concurrently, interleaved at
\* the steps of get and insert, the cache still never holds more than max_size
\* entries.
C9_ConcurrentSizeBounded == Len(cache.entries) <= cache.max_size

---------------------------------------------------------------------------
(* Properties of get_gridpoint_location (SpecResolver).                    *)

\* The positions in the history of returned calls at which `latlong` was used.
UsesOf(used, latlong) == {i \in 1..Len(used) : used[i].latlong = latlong}

\* The other pairs used after position i.
UsedSince(used, i) == {used[j].latlong : j \in (i + 1)..Len(used)} \ {used[i].latlong}

LookupFailed(response) ==
    \/ response.kind = "network_error"
    \/ response.json = None
    \/ response.json[1].properties = None
    \/ \E field \in {"cwa", "gridX", "gridY"} :
          field \notin DOMAIN response.json[1].properties[1]

\* C17 as stated: in both failure cases get_gridpoint_location returns absent and
\* records one lookup failure, and no error reaches the caller.
C17_FailureReturnsAbsent ==
    (last.op = "resolve" /\ last.points /= None /\ LookupFailed(last.points[1])) =>
        /\ ~last.raised
        /\ last.ret = None
        /\ counters.GRIDPOINT_LOOKUP_FAILURES =
               last.pre_counters.GRIDPOINT_LOOKUP_FAILURES + 1

---------------------------------------------------------------------------
(* Properties of fetch_current (SpecFetch).                                *)

\* The positions of the readings of a series that end strictly after t.
EndingAfter(values, t) ==
    {i \in 1..Len(values) : values[i].validTime.start + values[i].validTime.duration > t}

\* C11: fetch_current returns the value of the first reading in list order
\* whose interval ends strictly after now, and absent when the series is empty
\* or every interval ends at or before now.
C11_FirstCurrentReading ==
    last.op = "fetch_current" =>
        LET current == EndingAfter(last.values, last.t) IN
        IF current = {}
        THEN last.ret = None
        ELSE \E i \in current :
                /\ \A j \in current : i <= j
                /\ last.ret = last.values[i].value

\* Of two readings that both end in the future, the first listed starts later
\* and carries another value than the second, and its value was returned.
C11_Witness ==
    /\ last.op = "fetch_current"
    /\ Len(last.values) = 2
    /\ EndingAfter(last.values, last.t) = {1, 2}
    /\ last.values[1].validTime.start > last.values[2].validTime.start
    /\ last.values[1].value /= last.values[2].value
    /\ last.ret = last.values[1].value

\* C19 as stated: under any interleaving of concurrent get and insert calls on
\* the cache, no call fails: the delete of an expired entry finds its key, the
\* eviction finds an entry to pop, and the move to the front finds the key just
\* stored.
C19_NoInternalError ==
    \A th \in Threads : threads[th].error \notin {"del", "popitem", "move_to_end"}

====
